---- MODULE Spec2Model ----
(***************************************************************************)
(* Model of grub-core/disk/loopbackx.c: the "loopbackx" command, which     *)
(* registers a virtual disk made of up to MAXCHAINFILES backing files      *)
(* concatenated in argument order, and the disk-device callbacks           *)
(* (iterate, open, read, write) that serve it.                             *)
(*                                                                         *)
(* The program is single threaded; every handler runs to completion, so    *)
(* each handler is one action.  The file layer (grub_file_open, _seek,     *)
(* _read, _close) and the allocator are collaborators outside the file;    *)
(* they are modelled by their contract at the places the code calls them.  *)
(* Every handler is entered with grub_errno = GRUB_ERR_NONE, which is the  *)
(* calling convention of the command and disk layers.                      *)
(***************************************************************************)
EXTENDS Integers, Sequences, FiniteSets, TLC

(***************************************************************************)
(* Program constants                                                       *)
(***************************************************************************)
MAXCHAINFILES == 4

GRUB_DISK_SECTOR_BITS == 9

GRUB_DISK_SECTOR_SIZE == 2 ^ GRUB_DISK_SECTOR_BITS

GRUB_DISK_CACHE_BITS == 6

\* (grub_off_t) -1 and (grub_uint64_t) -1: the all-ones "unknown" sentinels.
GRUB_FILE_SIZE_UNKNOWN == -1

GRUB_DISK_SIZE_UNKNOWN == -1

GRUB_DISK_PULL_NONE == 0

GRUB_ERR_NONE == "GRUB_ERR_NONE"

GRUB_ERR_BAD_ARGUMENT == "GRUB_ERR_BAD_ARGUMENT"

GRUB_ERR_BAD_DEVICE == "GRUB_ERR_BAD_DEVICE"

GRUB_ERR_UNKNOWN_DEVICE == "GRUB_ERR_UNKNOWN_DEVICE"

GRUB_ERR_NOT_IMPLEMENTED_YET == "GRUB_ERR_NOT_IMPLEMENTED_YET"

GRUB_ERR_FILE_NOT_FOUND == "GRUB_ERR_FILE_NOT_FOUND"

GRUB_ERR_OUT_OF_MEMORY == "GRUB_ERR_OUT_OF_MEMORY"

GRUB_ERR_READ_ERROR == "GRUB_ERR_READ_ERROR"

(***************************************************************************)
(* Bounds of the model                                                     *)
(***************************************************************************)
\* Number of file objects the file layer can have open at once; a
\* grub_file_open beyond it fails for lack of memory.
MaxHandles == 4

\* Commands are explored as long as last_id stays at or below this value.
MaxId == 2

\* In the specification of the registry as a list, commands are explored as
\* long as last_id stays at or below this value.
MaxCreates == 3

\* Largest start sector and sector count of a read request.
MaxSector == 2

MaxCount == 2

\* How many arguments beyond the largest accepted argc the command is
\* called with.
ExtraArgs == 1

MaxArgc == MAXCHAINFILES + 1 + ExtraArgs

\* Device names the commands are called with.
Names == {"a", "b"}

\* Device names of the specification of the registry as a list.
ListNames == {"a", "b", "c"}

\* File paths the command is called with; "nofile" does not exist.
Paths == {"f1", "fu", "nofile"}

ExistingPaths == {"f1", "fu"}

\* file->size as the file layer reports it for an opened path.
FileSize(path) == IF path = "f1" THEN 700 ELSE GRUB_FILE_SIZE_UNKNOWN

\* Number of bytes the filesystem really delivers for a path.
ActualLen(path) == IF path = "f1" THEN 700 ELSE 600

\* Pull classes handed to iterate.
Pulls == {0, 1}

VARIABLES
  loopback_list,   \* the device list, head first
  last_id,         \* the id counter
  openFiles,       \* open file objects: handle -> path
  grub_errno,      \* grub_errno at the exit of the last handler
  disk,            \* the disk object filled in by the last successful open
  loaded,          \* the command and the disk device are registered
  last             \* the last handler call: its arguments and what it returned

vars == <<loopback_list, last_id, openFiles, grub_errno, disk, loaded, last>>

(***************************************************************************)
(* Helpers                                                                 *)
(***************************************************************************)
Min(S) == CHOOSE x \in S : \A y \in S : x <= y

Range(s) == {s[i] : i \in 1..Len(s)}

\* Unsigned 64-bit values are kept as integers of small magnitude: x >= 0
\* is x and x < 0 is 2^64 + x, so that + and - wrap as the machine does.
\* ULess is the unsigned comparison a < b.
ULess(a, b) == IF (a < 0) = (b < 0) THEN a < b ELSE b < 0

DevNames(list) == {list[i].devname : i \in 1..Len(list)}

DevIds(list) == {list[i].id : i \in 1..Len(list)}

\* Handles stored in files[0 .. nfiles-1] of a device.
DevHandles(dev) == {dev.files[i] : i \in 1..dev.nfiles}

OwnedHandles(list) == UNION {DevHandles(list[i]) : i \in 1..Len(list)}

\* The search ends on the last device when none is called name.
FindDev_lastIfMissing(list, name) ==
  IF \E i \in 1..Len(list) : list[i].devname = name
  THEN Min({i \in 1..Len(list) : list[i].devname = name})
  ELSE Len(list)

\* Index of the first device called name, 0 when there is none: the search
\* loops of delete_loopbackx, grub_cmd_loopbackx and grub_loopbackx_open.
FindDev(list, name) ==
  IF \E i \in 1..Len(list) : list[i].devname = name
  THEN Min({i \in 1..Len(list) : list[i].devname = name})
  ELSE 0

\* The list is cut at the device found: the devices after it go with it.
RemoveAt_truncate(list, k) == SubSeq(list, 1, k - 1)

\* The head is unlinked instead of the device found.
RemoveAt_head(list, k) == Tail(list)

\* *prev = dev->next: the list without its k-th device.
RemoveAt(list, k) == [i \in 1..(Len(list) - 1) |-> IF i < k THEN list[i] ELSE list[i + 1]]

\* A disk object no open has filled in.
NoDisk ==
  [valid |-> FALSE, name |-> "", total_sectors |-> 0, max_agglomerate |-> 0,
   id |-> 0, data |-> -1]

NoCall ==
  [op |-> "none", name |-> "", argc |-> 0, del |-> FALSE, ret |-> GRUB_ERR_NONE,
   attempts |-> 0, opened |-> <<>>, closed |-> <<>>,
   sector |-> 0, size |-> 0, iofail |-> 0, writes |-> <<>>, reads |-> <<>>,
   zeroed |-> 0, ub |-> FALSE, pull |-> 0, stopAt |-> 0, visited |-> <<>>,
   stopped |-> FALSE, freed |-> FALSE]

\* No handler has returned a result that its caller has yet to take.
Idle == last.op = "none"

(***************************************************************************)
(* File layer                                                              *)
(***************************************************************************)
FreeHandles(of) == (1..MaxHandles) \ DOMAIN of

\* grub_file_open: a new file object, or 0 with grub_errno set.
grub_file_open(of, path) ==
  IF path \notin ExistingPaths
  THEN [file |-> 0, of |-> of, errno |-> GRUB_ERR_FILE_NOT_FOUND]
  ELSE IF FreeHandles(of) = {}
  THEN [file |-> 0, of |-> of, errno |-> GRUB_ERR_OUT_OF_MEMORY]
  ELSE LET h == Min(FreeHandles(of))
       IN [file |-> h, of |-> (h :> path) @@ of, errno |-> GRUB_ERR_NONE]

\* grub_file_close: the file object is released.
grub_file_close(of, h) == [x \in (DOMAIN of) \ {h} |-> of[x]]

\* files[i]->size of an open file object.
SizeOf(of, h) == FileSize(of[h])

(***************************************************************************)
(* delete_loopbackx                                                        *)
(***************************************************************************)
\* while (dev->nfiles > 0) grub_file_close (dev->files[--dev->nfiles]);
RECURSIVE CloseDevFiles(_, _, _, _)
CloseDevFiles(of, files, nfiles, closed) ==
  IF nfiles > 0
  THEN CloseDevFiles(grub_file_close(of, files[nfiles]), files, nfiles - 1,
                     Append(closed, files[nfiles]))
  ELSE [of |-> of, closed |-> closed]

\* argc is the command's argument count; it is only noted in the record of
\* the call.
delete_loopbackx(name, argc) ==
  LET k == FindDev(loopback_list, name) IN
  IF k = 0
  THEN /\ grub_errno' = GRUB_ERR_BAD_DEVICE
       /\ last' = [NoCall EXCEPT !.op = "delete", !.name = name, !.argc = argc,
                                 !.del = TRUE, !.ret = GRUB_ERR_BAD_DEVICE]
       /\ UNCHANGED <<loopback_list, last_id, openFiles, disk, loaded>>
  ELSE LET dev == loopback_list[k]
           c == CloseDevFiles(openFiles, dev.files, dev.nfiles, <<>>)
       IN /\ loopback_list' = RemoveAt(loopback_list, k)
          /\ openFiles' = c.of
          /\ grub_errno' = GRUB_ERR_NONE
          /\ last' = [NoCall EXCEPT !.op = "delete", !.name = name, !.argc = argc,
                                    !.del = TRUE, !.ret = GRUB_ERR_NONE,
                                    !.closed = c.closed]
          /\ UNCHANGED <<last_id, disk, loaded>>

(***************************************************************************)
(* grub_cmd_loopbackx                                                      *)
(***************************************************************************)
\* The check for a missing device name is left out.
MissingName_never(argc) == FALSE

\* argc < 1
MissingName(argc) == argc < 1

\* The bound check off by one: one file too many is let through.
TooManyFiles_offByOne(argc) == argc > MAXCHAINFILES + 2

\* argc > MAXCHAINFILES+1
TooManyFiles(argc) == argc > MAXCHAINFILES + 1

\* The search for an existing name is left out.
NameExists_never(list, name) == FALSE

\* The search only looks at the head of the list.
NameExists_headOnly(list, name) == list # <<>> /\ list[1].devname = name

\* The search for a device that already has the requested name.
NameExists(list, name) == FindDev(list, name) # 0

\* for (i = 1; i < argc; i++): open args[i]; on failure leave the loop with
\* grub_errno set, otherwise files[nfiles++] = file.
RECURSIVE OpenLoop(_, _, _)
OpenLoop(paths, i, st) ==
  IF i > Len(paths)
  THEN st
  ELSE LET r == grub_file_open(st.of, paths[i]) IN
       IF r.file = 0
       THEN [st EXCEPT !.errno = r.errno, !.failed = TRUE, !.attempts = @ + 1]
       ELSE OpenLoop(paths, i + 1,
                     [st EXCEPT !.of = r.of, !.files = Append(@, r.file),
                                !.attempts = @ + 1])

\* The fail path returns without closing what the attempt opened.
CloseOpened_none(of, files, i, closed) == [of |-> of, closed |-> closed]

\* The fail path closes files[1 .. nfiles-1] and leaves files[0] open.
CloseOpened_skipFirst(of, files, i, closed) ==
  [of |-> [x \in (DOMAIN of) \ {files[j] : j \in 2..Len(files)} |-> of[x]],
   closed |-> SubSeq(files, 2, Len(files))]

\* fail: for (i = 0; i < nfiles; i++) grub_file_close (files[i]);
RECURSIVE CloseOpened(_, _, _, _)
CloseOpened(of, files, i, closed) ==
  IF i <= Len(files)
  THEN CloseOpened(grub_file_close(of, files[i]), files, i + 1, Append(closed, files[i]))
  ELSE [of |-> of, closed |-> closed]

\* The counter is read but not advanced.
NextId_noIncrement(id) == id

\* newdev->id = last_id++ : the value the counter has afterwards.
NextId(id) == id + 1

\* newdev->next = loopback_list; loopback_list = newdev;
InsertDev(list, dev) == <<dev>> \o list

\* The fail: label, reached with grub_errno = errno and files[0..nfiles-1] open.
CreateFail(name, argc, st, errno) ==
  LET c == CloseOpened(st.of, st.files, 1, <<>>) IN
  /\ openFiles' = c.of
  /\ grub_errno' = errno
  /\ last' = [NoCall EXCEPT !.op = "create", !.name = name, !.argc = argc,
                            !.ret = errno, !.attempts = st.attempts,
                            !.opened = st.files, !.closed = c.closed]
  /\ UNCHANGED <<loopback_list, last_id, disk, loaded>>

\* A return through grub_error before anything was opened.
CmdError(name, argc, set, errno) ==
  /\ grub_errno' = errno
  /\ last' = [NoCall EXCEPT !.op = IF set THEN "delete" ELSE "create",
                            !.name = name, !.argc = argc, !.del = set, !.ret = errno]
  /\ UNCHANGED <<loopback_list, last_id, openFiles, disk, loaded>>

\* The command handler.  set is state[0].set (-d), name is args[0] and paths
\* are args[1..argc-1].
grub_cmd_loopbackx(set, argc, name, paths) ==
  IF MissingName(argc) THEN CmdError("", argc, set, GRUB_ERR_BAD_ARGUMENT)
  ELSE IF set THEN delete_loopbackx(name, argc)
  ELSE IF argc < 2 THEN CmdError(name, argc, set, GRUB_ERR_BAD_ARGUMENT)
  ELSE IF TooManyFiles(argc) THEN CmdError(name, argc, set, GRUB_ERR_BAD_ARGUMENT)
  ELSE IF NameExists(loopback_list, name)
  THEN CmdError(name, argc, set, GRUB_ERR_BAD_ARGUMENT)
  ELSE LET st == OpenLoop(paths, 1,
                          [of |-> openFiles, files |-> <<>>, errno |-> GRUB_ERR_NONE,
                           failed |-> FALSE, attempts |-> 0])
       IN IF st.failed THEN CreateFail(name, argc, st, st.errno)
          ELSE \/ \* grub_malloc or grub_strdup returns 0
                  CreateFail(name, argc, st, GRUB_ERR_OUT_OF_MEMORY)
               \/ /\ loopback_list' =
                       InsertDev(loopback_list,
                                 [devname |-> name, nfiles |-> Len(st.files),
                                  files |-> st.files, id |-> last_id])
                  /\ last_id' = NextId(last_id)
                  /\ openFiles' = st.of
                  /\ grub_errno' = GRUB_ERR_NONE
                  /\ last' = [NoCall EXCEPT !.op = "create", !.name = name,
                                            !.argc = argc, !.ret = GRUB_ERR_NONE,
                                            !.attempts = st.attempts,
                                            !.opened = st.files]
                  /\ UNCHANGED <<disk, loaded>>

\* The command with an argument count the handler rejects before it looks
\* at any file name.
CmdBadArgc ==
  /\ Idle /\ loaded
  /\ \E argc \in {0, 1} \cup ((MAXCHAINFILES + 2)..MaxArgc), name \in Names :
       grub_cmd_loopbackx(FALSE, argc, name, [i \in 1..(argc - 1) |-> "f1"])
  /\ last_id' <= MaxId

\* loopbackx -d ... : only args[0] is read.
CmdDelete ==
  /\ Idle /\ loaded
  /\ \E argc \in 0..3, name \in Names :
       grub_cmd_loopbackx(TRUE, argc, name, <<>>)

\* The argument lists of length n the handler can tell apart: it opens the
\* paths in order and reads no argument after the first one that fails to
\* open, so the paths after a missing file are immaterial.
PathLists(n) ==
  [1..n -> ExistingPaths] \cup
  UNION {{[i \in 1..n |-> IF i < j THEN p[i] ELSE "nofile"] :
            p \in [1..(j - 1) -> ExistingPaths]} : j \in 1..n}

\* loopbackx NAME FILE1 .. FILEk.  When NAME is already registered the
\* handler returns before it reads any file name.
CmdCreate ==
  /\ Idle /\ loaded
  /\ \E argc \in 2..(MAXCHAINFILES + 1), name \in Names :
       IF FindDev(loopback_list, name) # 0
       THEN grub_cmd_loopbackx(FALSE, argc, name, [i \in 1..(argc - 1) |-> "f1"])
       ELSE \E paths \in PathLists(argc - 1) :
              grub_cmd_loopbackx(FALSE, argc, name, paths)
  /\ last_id' <= MaxId

(***************************************************************************)
(* grub_loopbackx_iterate                                                  *)
(***************************************************************************)
\* The value the hook returns is not looked at: every device is visited.
IterateLoop_ignoreHook(list, i, stopAt, visited) ==
  [visited |-> [j \in 1..Len(list) |-> list[j].devname], ret |-> 0]

\* The names handed to the hook, which returns nonzero at its stopAt-th call
\* (never when stopAt = 0), and the value the loop returns.
RECURSIVE IterateLoop(_, _, _, _)
IterateLoop(list, i, stopAt, visited) ==
  IF i > Len(list)
  THEN [visited |-> visited, ret |-> 0]
  ELSE IF i = stopAt
  THEN [visited |-> Append(visited, list[i].devname), ret |-> 1]
  ELSE IterateLoop(list, i + 1, stopAt, Append(visited, list[i].devname))

grub_loopbackx_iterate(stopAt, pull) ==
  LET r == IF pull # GRUB_DISK_PULL_NONE
           THEN [visited |-> <<>>, ret |-> 0]
           ELSE IterateLoop(loopback_list, 1, stopAt, <<>>)
  IN /\ last' = [NoCall EXCEPT !.op = "iterate", !.pull = pull, !.stopAt = stopAt,
                               !.visited = r.visited, !.stopped = (r.ret = 1)]
     /\ grub_errno' = GRUB_ERR_NONE
     /\ UNCHANGED <<loopback_list, last_id, openFiles, disk, loaded>>

Iterate ==
  /\ Idle /\ loaded
  /\ \E pull \in Pulls, stopAt \in 0..Len(loopback_list) :
       grub_loopbackx_iterate(stopAt, pull)

(***************************************************************************)
(* grub_loopbackx_open                                                     *)
(***************************************************************************)
\* The size loop: alldata and total_sectors when it is left.
RECURSIVE SizeLoop(_, _, _, _)
SizeLoop(of, files, i, alldata) ==
  IF i > Len(files)
  THEN [alldata |-> alldata, total_sectors |-> 0]
  ELSE IF SizeOf(of, files[i]) = GRUB_FILE_SIZE_UNKNOWN
  THEN [alldata |-> alldata, total_sectors |-> GRUB_DISK_SIZE_UNKNOWN]
  ELSE SizeLoop(of, files, i + 1, alldata + SizeOf(of, files[i]))

\* The division rounds down.
SectorsOf_floor(alldata) == alldata \div GRUB_DISK_SECTOR_SIZE

\* (alldata + GRUB_DISK_SECTOR_SIZE - 1) / GRUB_DISK_SECTOR_SIZE
SectorsOf(alldata) == (alldata + GRUB_DISK_SECTOR_SIZE - 1) \div GRUB_DISK_SECTOR_SIZE

TotalSectors(of, dev) ==
  LET r == SizeLoop(of, SubSeq(dev.files, 1, dev.nfiles), 1, 0)
  IN IF r.total_sectors # GRUB_DISK_SIZE_UNKNOWN
     THEN SectorsOf(r.alldata)
     ELSE r.total_sectors

\* The device found is moved to the head of the list.
grub_loopbackx_open_moveToFront(name) ==
  LET k == FindDev(loopback_list, name) IN
  IF k = 0
  THEN /\ grub_errno' = GRUB_ERR_UNKNOWN_DEVICE
       /\ last' = [NoCall EXCEPT !.op = "open", !.name = name,
                                 !.ret = GRUB_ERR_UNKNOWN_DEVICE]
       /\ UNCHANGED <<loopback_list, last_id, openFiles, disk, loaded>>
  ELSE LET dev == loopback_list[k] IN
       /\ loopback_list' = <<dev>> \o RemoveAt(loopback_list, k)
       /\ disk' = [valid |-> TRUE, name |-> name,
                   total_sectors |-> TotalSectors(openFiles, dev),
                   max_agglomerate |->
                     2 ^ (29 - GRUB_DISK_SECTOR_BITS - GRUB_DISK_CACHE_BITS),
                   id |-> dev.id, data |-> dev.id]
       /\ grub_errno' = GRUB_ERR_NONE
       /\ last' = [NoCall EXCEPT !.op = "open", !.name = name, !.ret = GRUB_ERR_NONE]
       /\ UNCHANGED <<last_id, openFiles, loaded>>

grub_loopbackx_open(name) ==
  LET k == FindDev(loopback_list, name) IN
  IF k = 0
  THEN /\ grub_errno' = GRUB_ERR_UNKNOWN_DEVICE
       /\ last' = [NoCall EXCEPT !.op = "open", !.name = name,
                                 !.ret = GRUB_ERR_UNKNOWN_DEVICE]
       /\ UNCHANGED <<loopback_list, last_id, openFiles, disk, loaded>>
  ELSE LET dev == loopback_list[k] IN
       /\ disk' = [valid |-> TRUE, name |-> name,
                   total_sectors |-> TotalSectors(openFiles, dev),
                   max_agglomerate |->
                     2 ^ (29 - GRUB_DISK_SECTOR_BITS - GRUB_DISK_CACHE_BITS),
                   id |-> dev.id, data |-> dev.id]
       /\ grub_errno' = GRUB_ERR_NONE
       /\ last' = [NoCall EXCEPT !.op = "open", !.name = name, !.ret = GRUB_ERR_NONE]
       /\ UNCHANGED <<loopback_list, last_id, openFiles, loaded>>

Open == Idle /\ loaded /\ \E name \in Names : grub_loopbackx_open(name)

(***************************************************************************)
(* grub_loopbackx_read                                                     *)
(***************************************************************************)
\* The length n handed to grub_file_read for a file in which reading takes
\* place: epos = spos + size; n = total; if (epos > size) n = size - spos.
ReadLen(spos, size, total) ==
  LET epos == spos + size
  IN IF ULess(size, epos) THEN size - spos ELSE total

\* grub_file_read (file, buf, n) at file offset off: the number of bytes
\* put into buf.  The file layer cuts n down to size - off and the
\* filesystem delivers no more than the file holds.
FileRead(of, h, off, n) ==
  LET read_max == SizeOf(of, h) - off
      len == IF ULess(read_max, n) THEN read_max ELSE n
      avail == IF ActualLen(of[h]) > off THEN ActualLen(of[h]) - off ELSE 0
  IN IF ULess(avail, len) THEN avail ELSE len

\* One pass of the loop body over files[i]; w holds spos, total, the
\* position of buf in the caller's buffer, what was put there, the reads
\* made and grub_errno.  The read of file number iofail fails.
ReadStep(of, files, i, w, iofail, cap) ==
  LET size == SizeOf(of, files[i]) IN
  IF ULess(w.spos, size)
  THEN LET n == ReadLen(w.spos, size, w.total)
           got == IF i = iofail THEN 0 ELSE FileRead(of, files[i], w.spos, n)
       IN [spos |-> 0,
           total |-> w.total - n,
           pos |-> w.pos + n,
           writes |-> IF got > 0
                      THEN Append(w.writes, [pos |-> w.pos, h |-> files[i],
                                             off |-> w.spos, len |-> got])
                      ELSE w.writes,
           reads |-> Append(w.reads, [i |-> i, off |-> w.spos, n |-> n]),
           errno |-> IF i = iofail THEN GRUB_ERR_READ_ERROR ELSE w.errno,
           ub |-> w.ub \/ (got > 0 /\ (w.pos < 0 \/ w.pos + got > cap))]
  ELSE [w EXCEPT !.spos = w.spos - size]

\* for (int i = 0; i < nfiles && total != 0; i++)
RECURSIVE ReadWalk(_, _, _, _, _, _)
ReadWalk(of, files, i, w, iofail, cap) ==
  IF i <= Len(files) /\ w.total # 0
  THEN ReadWalk(of, files, i + 1, ReadStep(of, files, i, w, iofail, cap), iofail, cap)
  ELSE w

\* The device disk->data points to: its index in the list, 0 when it has
\* been freed.
DiskDev(list, d) ==
  IF \E i \in 1..Len(list) : list[i].id = d.data
  THEN CHOOSE i \in 1..Len(list) : list[i].id = d.data
  ELSE 0

\* The call on a live device, up to its return.
ReadResult(of, dev, sector, size, iofail) ==
  LET cap == size * GRUB_DISK_SECTOR_SIZE
      w == ReadWalk(of, SubSeq(dev.files, 1, dev.nfiles), 1,
                    [spos |-> sector * GRUB_DISK_SECTOR_SIZE, total |-> cap, pos |-> 0,
                     writes |-> <<>>, reads |-> <<>>, errno |-> GRUB_ERR_NONE,
                     ub |-> FALSE],
                    iofail, cap)
  IN IF w.errno # GRUB_ERR_NONE
     THEN [ret |-> w.errno, writes |-> w.writes, reads |-> w.reads, zeroed |-> 0,
           ub |-> w.ub]
     ELSE IF w.total # 0
     THEN [ret |-> GRUB_ERR_NONE,
           writes |-> Append(w.writes, [pos |-> w.pos, h |-> 0, off |-> 0,
                                        len |-> w.total]),
           reads |-> w.reads, zeroed |-> w.total,
           ub |-> w.ub \/ w.total < 0 \/ w.pos < 0 \/ w.pos + w.total > cap]
     ELSE [ret |-> GRUB_ERR_NONE, writes |-> w.writes, reads |-> w.reads,
           zeroed |-> 0, ub |-> w.ub]

\* When the call wrote outside the caller's buffer, or went through a freed
\* device, what it returns is not determined by the program.
grub_loopbackx_read(sector, size, iofail) ==
  LET k == DiskDev(loopback_list, disk)
      r == IF k # 0
           THEN ReadResult(openFiles, loopback_list[k], sector, size, iofail)
           ELSE [ret |-> GRUB_ERR_NONE, writes |-> <<>>, reads |-> <<>>,
                 zeroed |-> 0, ub |-> TRUE]
  IN /\ \E ret \in (IF r.ub THEN {GRUB_ERR_NONE, GRUB_ERR_READ_ERROR} ELSE {r.ret}) :
          /\ grub_errno' = ret
          /\ last' = [NoCall EXCEPT !.op = "read", !.name = disk.name,
                                    !.sector = sector, !.size = size,
                                    !.iofail = iofail, !.ret = ret,
                                    !.writes = r.writes, !.reads = r.reads,
                                    !.zeroed = r.zeroed, !.ub = r.ub,
                                    !.freed = (k = 0)]
     /\ UNCHANGED <<loopback_list, last_id, openFiles, disk, loaded>>

Read ==
  /\ Idle /\ loaded
  /\ disk.valid
  /\ \E sector \in 0..MaxSector, size \in 0..MaxCount, iofail \in 0..MAXCHAINFILES :
       /\ iofail <= (IF DiskDev(loopback_list, disk) = 0 THEN 0
                     ELSE loopback_list[DiskDev(loopback_list, disk)].nfiles)
       /\ grub_loopbackx_read(sector, size, iofail)

(***************************************************************************)
(* grub_loopbackx_write                                                    *)
(***************************************************************************)
\* The write is reported as done.
grub_loopbackx_write_ok ==
  /\ grub_errno' = GRUB_ERR_NONE
  /\ last' = [NoCall EXCEPT !.op = "write", !.name = disk.name,
                            !.ret = GRUB_ERR_NONE]
  /\ UNCHANGED <<loopback_list, last_id, openFiles, disk, loaded>>

grub_loopbackx_write ==
  /\ grub_errno' = GRUB_ERR_NOT_IMPLEMENTED_YET
  /\ last' = [NoCall EXCEPT !.op = "write", !.name = disk.name,
                            !.ret = GRUB_ERR_NOT_IMPLEMENTED_YET]
  /\ UNCHANGED <<loopback_list, last_id, openFiles, disk, loaded>>

Write == Idle /\ loaded /\ disk.valid /\ grub_loopbackx_write

(***************************************************************************)
(* GRUB_MOD_FINI                                                           *)
(***************************************************************************)
\* The command and the disk device are unregistered: no handler of the
\* module runs afterwards.
Fini ==
  /\ Idle /\ loaded
  /\ loaded' = FALSE
  /\ grub_errno' = GRUB_ERR_NONE
  /\ last' = [NoCall EXCEPT !.op = "fini"]
  /\ UNCHANGED <<loopback_list, last_id, openFiles, disk>>

(***************************************************************************)
(* The caller                                                              *)
(***************************************************************************)
\* The command layer or the disk layer takes the handler's result, reports
\* the error if there is one and clears grub_errno before the next call.
Return ==
  /\ ~Idle
  /\ last' = NoCall
  /\ grub_errno' = GRUB_ERR_NONE
  /\ UNCHANGED <<loopback_list, last_id, openFiles, disk, loaded>>

Init ==
  /\ loopback_list = <<>>
  /\ last_id = 0
  /\ openFiles = <<>>
  /\ grub_errno = GRUB_ERR_NONE
  /\ disk = NoDisk
  /\ loaded = TRUE
  /\ last = NoCall

Next == CmdBadArgc \/ CmdDelete \/ CmdCreate \/ Iterate \/ Open \/ Read \/ Write \/ Fini \/ Return

Spec == Init /\ [][Next]_vars

(***************************************************************************)
(* The registry as a list: creates and deletes only, over three names and  *)
(* chains of one or two files, so that a device can be unlinked at the     *)
(* head, in the middle and at the tail of loopback_list.                   *)
(***************************************************************************)
\* loopbackx NAME FILE1 [FILE2]
ListCreate ==
  /\ Idle /\ loaded
  /\ \E argc \in {2, 3}, name \in ListNames :
       IF FindDev(loopback_list, name) # 0
       THEN grub_cmd_loopbackx(FALSE, argc, name, [i \in 1..(argc - 1) |-> "f1"])
       ELSE \E paths \in PathLists(argc - 1) :
              grub_cmd_loopbackx(FALSE, argc, name, paths)
  /\ last_id' <= MaxCreates

\* loopbackx -d NAME
ListDelete ==
  /\ Idle /\ loaded
  /\ \E name \in ListNames : grub_cmd_loopbackx(TRUE, 1, name, <<>>)

ListNext == ListCreate \/ ListDelete \/ Return

SpecList == Init /\ [][ListNext]_vars

(***************************************************************************)
(* What a read put into the caller's buffer                                *)
(***************************************************************************)
\* A byte is <<h, off>>: byte off of the file behind handle h; <<0, 0>> is
\* a zero byte written by grub_memset and <<-1, 0>> a byte never written.
BufByte(writes, k) ==
  IF \E j \in 1..Len(writes) : writes[j].pos <= k /\ k < writes[j].pos + writes[j].len
  THEN LET w == writes[CHOOSE j \in 1..Len(writes) :
                         writes[j].pos <= k /\ k < writes[j].pos + writes[j].len]
       IN IF w.h = 0 THEN <<0, 0>> ELSE <<w.h, w.off + (k - w.pos)>>
  ELSE <<-1, 0>>

\* Byte x of the concatenation of the files of a chain, in chain order.
RECURSIVE ConcatByte(_, _, _)
ConcatByte(of, files, x) ==
  IF x < SizeOf(of, Head(files))
  THEN <<Head(files), x>>
  ELSE ConcatByte(of, Tail(files), x - SizeOf(of, Head(files)))

RECURSIVE ChainLen(_, _)
ChainLen(of, files) ==
  IF files = <<>> THEN 0 ELSE SizeOf(of, Head(files)) + ChainLen(of, Tail(files))

AllKnown(of, files) ==
  \A i \in 1..Len(files) : SizeOf(of, files[i]) # GRUB_FILE_SIZE_UNKNOWN

\* The state is the return of a read on a live device whose files all have
\* a known length, during which no file read failed and nothing was
\* written outside the caller's buffer.
CleanRead ==
  /\ last.op = "read"
  /\ ~last.freed
  /\ ~last.ub
  /\ last.iofail = 0
  /\ DiskDev(loopback_list, disk) # 0
  /\ AllKnown(openFiles, loopback_list[DiskDev(loopback_list, disk)].files)

ReadFiles == loopback_list[DiskDev(loopback_list, disk)].files

ReadOff == last.sector * GRUB_DISK_SECTOR_SIZE

ReadBytes == last.size * GRUB_DISK_SECTOR_SIZE

\* C1: a read whose byte range lies inside the concatenation of the chain's
\* files succeeds and returns exactly the bytes of that range, wherever the
\* range starts and ends.
C1_ReadInsideChain ==
  (CleanRead /\ ReadOff + ReadBytes <= ChainLen(openFiles, ReadFiles))
    => /\ last.ret = GRUB_ERR_NONE
       /\ \A k \in 0..(ReadBytes - 1) :
            BufByte(last.writes, k) = ConcatByte(openFiles, ReadFiles, ReadOff + k)

\* C2: a read whose byte range runs past the end of the last file succeeds,
\* returns the file bytes before the end of the concatenation and zero
\* bytes from there on.
C2_ZeroFillPastEnd ==
  (CleanRead /\ ReadOff + ReadBytes > ChainLen(openFiles, ReadFiles))
    => /\ last.ret = GRUB_ERR_NONE
       /\ \A k \in 0..(ReadBytes - 1) :
            BufByte(last.writes, k) =
              IF ReadOff + k < ChainLen(openFiles, ReadFiles)
              THEN ConcatByte(openFiles, ReadFiles, ReadOff + k)
              ELSE <<0, 0>>

(***************************************************************************)
(* The registry                                                            *)
(***************************************************************************)
\* C3: the open file handles are exactly the handles owned by the devices
\* in the registry, after every command, successful or failed.
C3_HandlesOwned == DOMAIN openFiles = OwnedHandles(loopback_list)

\* A create failed after it had opened files while a device is registered.
C3_Witness ==
  /\ last.op = "create"
  /\ last.ret # GRUB_ERR_NONE
  /\ Len(last.opened) >= 2
  /\ Len(loopback_list) >= 1

\* The step is a create, with an accepted number of arguments, of a name
\* that is in the registry.
DuplicateCreate ==
  /\ last'.op = "create"
  /\ last'.argc >= 2 /\ last'.argc <= MAXCHAINFILES + 1
  /\ last'.name \in DevNames(loopback_list)

RegistryUnchanged ==
  /\ loopback_list' = loopback_list
  /\ last_id' = last_id
  /\ openFiles' = openFiles

\* C4, as claimed: a create of a name that is in the registry fails with an
\* error kind of its own, which is not BadArgument, opens no file and leaves
\* the registry unchanged.
C4_DuplicateOwnKind ==
  [][DuplicateCreate =>
       /\ last'.ret \notin {GRUB_ERR_NONE, GRUB_ERR_BAD_ARGUMENT}
       /\ last'.attempts = 0
       /\ RegistryUnchanged]_vars

\* C4, amended: a create of a name that is in the registry fails with
\* GRUB_ERR_BAD_ARGUMENT, the kind of the other argument errors, opens no
\* file and leaves the registry unchanged.
C4_DuplicateBadArgument ==
  [][DuplicateCreate =>
       /\ last'.ret = GRUB_ERR_BAD_ARGUMENT
       /\ last'.attempts = 0
       /\ RegistryUnchanged]_vars

\* A create of the name of the older of two registered devices was refused.
C4_Witness ==
  /\ last.op = "create"
  /\ last.argc = 3
  /\ last.ret = GRUB_ERR_BAD_ARGUMENT
  /\ Len(loopback_list) = 2
  /\ last.name = loopback_list[2].devname

\* C5: no two devices of the registry have the same name.
C5_UniqueNames ==
  \A i, j \in 1..Len(loopback_list) :
    i # j => loopback_list[i].devname # loopback_list[j].devname

\* A second device has just been registered next to the first.
C5_Witness ==
  /\ Len(loopback_list) = 2
  /\ last.op = "create"
  /\ last.ret = GRUB_ERR_NONE
  /\ last.name = loopback_list[1].devname

\* C6: when the i-th file of a create fails to open, the handles opened for
\* files 1..i-1 are all closed, no later file is opened, the command
\* returns an error and the registry is what it was before the call.
C6_AtomicCreateFailure ==
  [][(last'.op = "create" /\ last'.attempts > Len(last'.opened)) =>
       /\ last'.ret # GRUB_ERR_NONE
       /\ last'.attempts = Len(last'.opened) + 1
       /\ Range(last'.opened) \cap DOMAIN openFiles' = {}
       /\ Range(last'.closed) = Range(last'.opened)
       /\ RegistryUnchanged]_vars

\* The third file of a create failed to open while a device is registered.
C6_Witness ==
  /\ last.op = "create"
  /\ last.attempts = 3
  /\ Len(last.opened) = 2
  /\ last.ret = GRUB_ERR_FILE_NOT_FOUND
  /\ Len(loopback_list) = 1

\* C7: a create with more than MAXCHAINFILES file paths fails with
\* GRUB_ERR_BAD_ARGUMENT before any file is opened and leaves the registry
\* unchanged; with exactly MAXCHAINFILES paths and a new name the files are
\* opened.
C7_ChainBound ==
  [][/\ (last'.op = "create" /\ last'.argc > MAXCHAINFILES + 1) =>
          /\ last'.ret = GRUB_ERR_BAD_ARGUMENT
          /\ last'.attempts = 0
          /\ last'.opened = <<>>
          /\ RegistryUnchanged
     /\ (/\ last'.op = "create"
         /\ last'.argc = MAXCHAINFILES + 1
         /\ last'.name \notin DevNames(loopback_list)) =>
          last'.attempts >= 1]_vars

\* A create with MAXCHAINFILES + 1 paths was refused, next to a device that
\* has MAXCHAINFILES files.
C7_Witness ==
  /\ last.op = "create"
  /\ last.argc = MAXCHAINFILES + 2
  /\ last.ret = GRUB_ERR_BAD_ARGUMENT
  /\ \E i \in 1..Len(loopback_list) : loopback_list[i].nfiles = MAXCHAINFILES

\* The least number of sectors that hold n bytes.
CeilSectors(n) ==
  CHOOSE q \in 0..n : q * GRUB_DISK_SECTOR_SIZE >= n /\ (q - 1) * GRUB_DISK_SECTOR_SIZE < n

\* The device a successful open has just looked up.
OpenedDev == loopback_list[FindDev(loopback_list, last.name)]

\* C8: open reports the sum of the file lengths in sectors, rounded up,
\* when every file of the chain has a known length, and the unknown-size
\* value when a file at any position has unknown length.
C8_SizeAggregation ==
  (last.op = "open" /\ last.ret = GRUB_ERR_NONE) =>
    /\ disk.valid
    /\ disk.name = last.name
    /\ IF AllKnown(openFiles, OpenedDev.files)
       THEN disk.total_sectors = CeilSectors(ChainLen(openFiles, OpenedDev.files))
       ELSE disk.total_sectors = GRUB_DISK_SIZE_UNKNOWN

\* A chain of three files of known length, whose sum is no multiple of the
\* sector size, was opened.
C8_Witness ==
  /\ last.op = "open"
  /\ last.ret = GRUB_ERR_NONE
  /\ OpenedDev.nfiles = 3
  /\ AllKnown(openFiles, OpenedDev.files)
  /\ ChainLen(openFiles, OpenedDev.files) % GRUB_DISK_SECTOR_SIZE # 0
  /\ disk.total_sectors = 5

\* C9: a successful delete closes every handle the device owned and takes
\* the device out of the registry; an open of a name that is not in the
\* registry fails with GRUB_ERR_UNKNOWN_DEVICE; and a name enters the
\* registry only through a successful create of that name.
C9_DeleteReleases ==
  [][/\ (last'.op = "delete" /\ last'.ret = GRUB_ERR_NONE) =>
          /\ last'.name \in DevNames(loopback_list)
          /\ last'.name \notin DevNames(loopback_list')
          /\ DevHandles(loopback_list[FindDev(loopback_list, last'.name)])
               \cap DOMAIN openFiles' = {}
     /\ (last'.op = "open" /\ last'.name \notin DevNames(loopback_list)) =>
          /\ last'.ret = GRUB_ERR_UNKNOWN_DEVICE
          /\ disk' = disk
     /\ \A n \in DevNames(loopback_list') \ DevNames(loopback_list) :
          last'.op = "create" /\ last'.name = n /\ last'.ret = GRUB_ERR_NONE]_vars

\* An open of a name failed after the device of that name, which had been
\* opened before, was deleted, while another device stays registered.
C9_Witness ==
  /\ last.op = "open"
  /\ last.ret = GRUB_ERR_UNKNOWN_DEVICE
  /\ disk.valid
  /\ disk.name = last.name
  /\ Len(loopback_list) = 1

\* C10: the ids given to successively created devices strictly increase
\* and no id is given twice: every id in the registry is below the counter,
\* the counter never decreases, and a created device gets an id that is at
\* least the counter before the call and below the counter after it.
C10_IdMonotonic ==
  [][/\ last_id' >= last_id
     /\ \A i \in 1..Len(loopback_list') : loopback_list'[i].id < last_id'
     /\ \A i, j \in 1..Len(loopback_list') :
          i # j => loopback_list'[i].id # loopback_list'[j].id
     /\ (last'.op = "create" /\ last'.ret = GRUB_ERR_NONE) =>
          /\ loopback_list' # <<>>
          /\ Tail(loopback_list') = loopback_list
          /\ loopback_list'[1].devname = last'.name
          /\ loopback_list'[1].id >= last_id
          /\ loopback_list'[1].id < last_id']_vars

\* A name was created, deleted and created again.
C10_Witness ==
  /\ last.op = "create"
  /\ last.ret = GRUB_ERR_NONE
  /\ Len(loopback_list) = 1
  /\ loopback_list[1].id = 1
  /\ last_id = 2

(***************************************************************************)
(* Failure of a file read                                                  *)
(***************************************************************************)
\* The state is the return of a read on a live device during which the
\* read of file number last.iofail was made and failed, and nothing was
\* written outside the caller's buffer.
FailedRead ==
  /\ last.op = "read"
  /\ ~last.freed
  /\ ~last.ub
  /\ \E j \in 1..Len(last.reads) : last.reads[j].i = last.iofail

\* C11: when the read of one backing file fails, the call stops there: no
\* later file of the chain is sought or read, nothing is zero-filled and the
\* call returns that error.
C11_AbortOnIOError ==
  FailedRead =>
    /\ \A j \in 1..Len(last.reads) : last.reads[j].i <= last.iofail
    /\ last.zeroed = 0
    /\ last.ret = GRUB_ERR_READ_ERROR

(***************************************************************************)
(* Delete mode                                                             *)
(***************************************************************************)
\* The step hands last'.name to delete_loopbackx: a registered device of
\* that name is removed, and a name that is not registered is an error that
\* changes nothing.
DelegatedDelete ==
  IF last'.name \in DevNames(loopback_list)
  THEN /\ last'.ret = GRUB_ERR_NONE
       /\ last'.name \notin DevNames(loopback_list')
       /\ Len(loopback_list') = Len(loopback_list) - 1
  ELSE /\ last'.ret = GRUB_ERR_BAD_DEVICE
       /\ RegistryUnchanged

\* C12, as claimed: with -d the command takes exactly one positional
\* argument; with none, or with two or more, it fails with
\* GRUB_ERR_BAD_ARGUMENT and deletes nothing, and with one it deletes the
\* device of that name.
C12_DeleteExactlyOneArg ==
  [][(last'.op = "delete") =>
       IF last'.argc = 1
       THEN DelegatedDelete
       ELSE last'.ret = GRUB_ERR_BAD_ARGUMENT /\ RegistryUnchanged]_vars

\* C12, amended: with -d the command takes at least one positional
\* argument; with none it fails with GRUB_ERR_BAD_ARGUMENT and deletes
\* nothing, and with one or more it deletes the device named by the first
\* argument, whatever follows it.
C12_DeleteFirstArg ==
  [][(last'.op = "delete") =>
       IF last'.argc >= 1
       THEN DelegatedDelete
       ELSE last'.ret = GRUB_ERR_BAD_ARGUMENT /\ RegistryUnchanged]_vars

\* The command with -d and two positional arguments deleted one of two
\* registered devices.
C12_Witness ==
  /\ last.op = "delete"
  /\ last.argc = 2
  /\ last.ret = GRUB_ERR_NONE
  /\ last.closed # <<>>
  /\ Len(loopback_list) = 1

(***************************************************************************)
(* Module finalization                                                     *)
(***************************************************************************)
\* C13: after module finalization the registry holds no device and no
\* backing-file handle is open.
C13_FiniReleasesAll ==
  ~loaded => (loopback_list = <<>> /\ DOMAIN openFiles = {})

(***************************************************************************)
(* Enumeration                                                             *)
(***************************************************************************)
\* The names of the registry's devices, in registry order.
RegistryNames == [i \in 1..Len(loopback_list) |-> loopback_list[i].devname]

\* C14: iterate with a pull class other than GRUB_DISK_PULL_NONE calls the
\* hook for no device and returns 0; with GRUB_DISK_PULL_NONE it hands the
\* hook the device names in registry order, which is most recently created
\* first, stops at the first call at which the hook returns nonzero and then
\* returns 1, and otherwise visits every device once and returns 0.
C14_Iterate ==
  (last.op = "iterate") =>
    /\ \A i, j \in 1..Len(loopback_list) :
         i < j => loopback_list[i].id > loopback_list[j].id
    /\ IF last.pull # GRUB_DISK_PULL_NONE
       THEN last.visited = <<>> /\ ~last.stopped
       ELSE IF last.stopAt \in 1..Len(loopback_list)
       THEN last.visited = SubSeq(RegistryNames, 1, last.stopAt) /\ last.stopped
       ELSE last.visited = RegistryNames /\ ~last.stopped

\* Of two registered devices the hook stopped the enumeration at the first.
C14_Witness ==
  /\ last.op = "iterate"
  /\ last.pull = GRUB_DISK_PULL_NONE
  /\ Len(loopback_list) = 2
  /\ last.stopAt = 1
  /\ last.stopped
  /\ last.visited = <<loopback_list[1].devname>>

(***************************************************************************)
(* Lookup misses, write and open                                           *)
(***************************************************************************)
\* A delete that reached the lookup with a name no device has.
DeleteMiss ==
  /\ last'.op = "delete"
  /\ last'.argc >= 1
  /\ last'.name \notin DevNames(loopback_list)

\* C15 as stated: delete of a name that is not in the registry fails with
\* the error kind open reports for an absent name, GRUB_ERR_UNKNOWN_DEVICE,
\* and leaves the registry and every open handle unchanged.
C15_DeleteMissUnknownDevice ==
  [][DeleteMiss => (last'.ret = GRUB_ERR_UNKNOWN_DEVICE /\ RegistryUnchanged)]_vars

\* C15 amended: delete of a name that is not in the registry fails with
\* GRUB_ERR_BAD_DEVICE, which is not the kind open reports for an absent
\* name, and leaves the registry and every open handle unchanged.
C15_DeleteMissBadDevice ==
  [][DeleteMiss =>
       /\ last'.ret = GRUB_ERR_BAD_DEVICE
       /\ grub_errno' = GRUB_ERR_BAD_DEVICE
       /\ GRUB_ERR_BAD_DEVICE # GRUB_ERR_UNKNOWN_DEVICE
       /\ RegistryUnchanged]_vars

\* A delete missed its name while another device was registered.
C15_Witness ==
  /\ last.op = "delete"
  /\ last.argc >= 1
  /\ last.ret = GRUB_ERR_BAD_DEVICE
  /\ last.name \notin DevNames(loopback_list)
  /\ Len(loopback_list) = 1

\* C16: every write on an opened device returns
\* GRUB_ERR_NOT_IMPLEMENTED_YET and changes nothing: the registry, the
\* backing-file handles, the id counter and the disk object are the same
\* before and after.
C16_WriteRejected ==
  [][(last'.op = "write") =>
       /\ disk.valid
       /\ last'.ret = GRUB_ERR_NOT_IMPLEMENTED_YET
       /\ grub_errno' = GRUB_ERR_NOT_IMPLEMENTED_YET
       /\ RegistryUnchanged
       /\ disk' = disk]_vars

\* A write was made on a disk whose device is registered.
C16_Witness ==
  /\ last.op = "write"
  /\ disk.valid
  /\ DiskDev(loopback_list, disk) # 0
  /\ last.ret = GRUB_ERR_NOT_IMPLEMENTED_YET

\* C17: open, whether it succeeds or fails, leaves the registry unchanged:
\* the list of devices and its order, each device's name, id, file count and
\* handles, the open handles and the id counter.
C17_OpenFrame ==
  [][(last'.op = "open") => RegistryUnchanged]_vars

\* An open succeeded on the second of two registered devices.
C17_Witness ==
  /\ last.op = "open"
  /\ last.ret = GRUB_ERR_NONE
  /\ Len(loopback_list) = 2
  /\ loopback_list[2].devname = last.name
  /\ disk.id = loopback_list[2].id

(***************************************************************************)
(* The chain walk of a read                                                *)
(***************************************************************************)
\* The bytes still needed when the j-th file read of a call is made: the
\* requested length less the lengths of the reads before it.
RECURSIVE StillNeeded(_, _, _)
StillNeeded(reads, j, bytes) ==
  IF j = 1 THEN bytes ELSE StillNeeded(reads, j - 1, bytes) - reads[j - 1].n

\* C18: at every file at which a read takes place, the number of bytes
\* asked of the file, by which the output position advances and the
\* remaining count decreases, is the smaller of the bytes still needed and
\* the bytes of the file from the cursor on; so the remaining count never
\* goes below zero.
C18_ReadLenIsMin ==
  (/\ last.op = "read"
   /\ ~last.freed
   /\ DiskDev(loopback_list, disk) # 0
   /\ AllKnown(openFiles, ReadFiles))
    => \A j \in 1..Len(last.reads) :
         LET r == last.reads[j]
             needed == StillNeeded(last.reads, j, ReadBytes)
         IN /\ r.n = Min({needed, SizeOf(openFiles, ReadFiles[r.i]) - r.off})
            /\ needed - r.n >= 0

\* C19: at every read made through a disk object filled in by open, the
\* device attached to it is still a device of the registry, with its files
\* open.
C19_ReadOnLiveDevice ==
  (last.op = "read") =>
    /\ ~last.freed
    /\ DiskDev(loopback_list, disk) # 0
    /\ DevHandles(loopback_list[DiskDev(loopback_list, disk)]) \subseteq DOMAIN openFiles

(***************************************************************************)
(* Unlinking a device                                                      *)
(***************************************************************************)
\* The registry without the devices called name, the others in their order.
WithoutName(list, name) ==
  LET Other(d) == d.devname # name IN SelectSeq(list, Other)

\* C20: a successful delete removes exactly the device of the name given,
\* wherever it sits in the list: every other device stays, with its name,
\* id, file count and handles, in the same relative order; its handles stay
\* open, those of the removed device and no others are closed, and the id
\* counter is unchanged.
C20_DeleteRemovesExactlyOne ==
  [][(last'.op = "delete" /\ last'.ret = GRUB_ERR_NONE) =>
       /\ last'.name \in DevNames(loopback_list)
       /\ loopback_list' = WithoutName(loopback_list, last'.name)
       /\ Len(loopback_list') = Len(loopback_list) - 1
       /\ last_id' = last_id
       /\ DOMAIN openFiles' =
            DOMAIN openFiles \ DevHandles(loopback_list[FindDev(loopback_list, last'.name)])
       /\ \A h \in DOMAIN openFiles' : openFiles'[h] = openFiles[h]]_vars

\* The second of three devices was deleted: the newest and the oldest are
\* left, in that order.
C20_Witness ==
  /\ last.op = "delete"
  /\ last.ret = GRUB_ERR_NONE
  /\ Len(loopback_list) = 2
  /\ loopback_list[1].id = 2
  /\ loopback_list[2].id = 0

====
